---- MODULE Spec2Model ----
(***************************************************************************)
(* Model of fcatalog_client/ida_client.py: the candidate selector, the     *)
(* naming codec, and the commit_funcs / find_similars / clean_idb          *)
(* operations of the fcatalog IDA client.                                  *)
(*                                                                         *)
(* A Python string is modelled as a sequence of one-character strings, so  *)
(* that startswith, "in", lower, splitlines, join and format are computed  *)
(* character by character as the interpreter computes them.                *)
(***************************************************************************)
EXTENDS Integers, Sequences, FiniteSets, TLC

----------------------------------------------------------------------------
(* Bounds of the model.                                                     *)

\* Number of functions in the database (idautils.Functions()).
MaxFuncs == 2
\* Largest batch_size passed to find_similars.
MaxBatch == 2
\* Longest comment given to the comment codec.
MaxCommentLen == 4
\* Longest catalog comment given to the comment codec.
MaxFCommentLen == 2

----------------------------------------------------------------------------
(* Program constants.                                                       *)

MIN_FUNC_LENGTH == 96

FCATALOG_FUNC_NAME_PREFIX == <<"F","C","A","T","A","L","O","G","_","_">>

FCATALOG_COMMENT_PREFIX == <<"%","%","%">>

MAX_SIM_GRADE == 16

NUM_SIMILARS == 1

GET_SIMILARS_BATCH_SIZE == 20

----------------------------------------------------------------------------
(* Python string primitives.                                                *)

LF == "\n"
CR == "\r"

UpperChars == <<"A","B","C","D","E","F","G","H","I","J","K","L","M",
                "N","O","P","Q","R","S","T","U","V","W","X","Y","Z">>
LowerChars == <<"a","b","c","d","e","f","g","h","i","j","k","l","m",
                "n","o","p","q","r","s","t","u","v","w","x","y","z">>

\* The upper-case letters, and the lower-case letter of each.
UpperSet == {UpperChars[i] : i \in 1..26}
LowerOf ==
    [c \in UpperSet |-> LowerChars[CHOOSE i \in 1..26 : UpperChars[i] = c]]

\* str.lower() on one character.
LowerChar(c) == IF c \in UpperSet THEN LowerOf[c] ELSE c

\* str.lower(): every character lowered, as a sequence.
Lower(s) == SubSeq([i \in 1..Len(s) |-> LowerChar(s[i])], 1, Len(s))

\* s.startswith(p)
StartsWith(s, p) ==
    /\ Len(p) <= Len(s)
    /\ \A i \in 1..Len(p) : s[i] = p[i]

\* p in s  (substring test)
Contains(s, p) ==
    \E k \in 0..(Len(s) - Len(p)) : \A i \in 1..Len(p) : s[k + i] = p[i]

IsLineBreak(c) == c = LF \/ c = CR

\* Index of the first line break of s at or after position i (Len(s)+1 if none).
RECURSIVE FindBreak(_, _)
FindBreak(s, i) ==
    IF i > Len(s) THEN i
    ELSE IF IsLineBreak(s[i]) THEN i
    ELSE FindBreak(s, i + 1)

\* str.splitlines(): lines without their line breaks; "\r\n" is one break;
\* a trailing line break does not open a further (empty) line.
RECURSIVE SplitFrom(_, _)
SplitFrom(s, j) ==
    IF j > Len(s) THEN <<>>
    ELSE LET eol == FindBreak(s, j)
             nxt == IF eol > Len(s) THEN eol
                    ELSE IF s[eol] = CR /\ eol + 1 <= Len(s) /\ s[eol + 1] = LF
                         THEN eol + 2
                         ELSE eol + 1
         IN  <<SubSeq(s, j, eol - 1)>> \o SplitFrom(s, nxt)

SplitLines(s) == SplitFrom(s, 1)

\* '\n'.join(lines)
RECURSIVE JoinLF(_)
JoinLF(lines) ==
    IF Len(lines) = 0 THEN <<>>
    ELSE IF Len(lines) = 1 THEN lines[1]
    ELSE lines[1] \o <<LF>> \o JoinLF(Tail(lines))

DigitChars == <<"0","1","2","3","4","5","6","7","8","9","A","B","C","D","E","F">>

\* Digits of n >= 0 in the given base, most significant first ("0" for 0).
RECURSIVE Digits(_, _)
Digits(n, base) ==
    IF n < base THEN <<DigitChars[n + 1]>>
    ELSE Digits(n \div base, base) \o <<DigitChars[(n % base) + 1]>>

\* str(n) for an integer.
DecStr(n) == IF n < 0 THEN <<"-">> \o Digits(0 - n, 10) ELSE Digits(n, 10)

\* '{:X}' for n >= 0.
HexStr(n) == Digits(n, 16)

\* '{:0>w}': right-align s in a field of width w, filled with '0'.
RECURSIVE PadLeft0(_, _)
PadLeft0(s, w) == IF Len(s) >= w THEN s ELSE PadLeft0(<<"0">> \o s, w)

\* An address is an unbounded Python integer; the model writes the address
\* hi * 2^16 + lo, 0 <= lo < 2^16, as <<hi, lo>>, so that addresses of more
\* than 32 bits exist in it.
Addr(hi, lo) == <<hi, lo>>

\* a < b on addresses.
AddrLess(a, b) == a[1] < b[1] \/ (a[1] = b[1] /\ a[2] < b[2])

\* a - b on addresses, as an integer.
AddrMinus(a, b) == (a[1] - b[1]) * 65536 + (a[2] - b[2])

\* A mutation of Mask32: the address is not masked.
Mask32_none(x) == x

\* x & 0xffffffff
Mask32(x) == Addr(x[1] % 65536, x[2])

\* '{:0>8X}' of an address below 2^32: its eight hexadecimal digits.
Hex8(x) == PadLeft0(HexStr(x[1]), 4) \o PadLeft0(HexStr(x[2]), 4)

----------------------------------------------------------------------------
(* Naming codec.                                                            *)

strip_comment_fcatalog(comment) ==
    JoinLF(SelectSeq(SplitLines(comment),
                     LAMBDA ln : ~StartsWith(ln, FCATALOG_COMMENT_PREFIX)))

PrefixLines(lines) ==
    [i \in 1..Len(lines) |-> FCATALOG_COMMENT_PREFIX \o <<" ">> \o lines[i]]

add_comment_fcatalog(comment, fcatalog_comment) ==
    JoinLF(PrefixLines(SplitLines(fcatalog_comment)) \o SplitLines(comment))

make_fcatalog_name(func_name, sim_grade, func_addr) ==
    FCATALOG_FUNC_NAME_PREFIX
        \o PadLeft0(DecStr(sim_grade), 2) \o <<"_","_">>
        \o func_name
        \o <<"_","_">> \o Hex8(Mask32(func_addr))

----------------------------------------------------------------------------
(* State.                                                                   *)

VARIABLES
    name,           \* host: address -> declared name (idc.GetFunctionName / MakeName)
    comment,        \* host: address -> stored function comment
    attr,           \* host: address -> [num_chunks, func_end, readable]
    op,             \* operation last started: "none", "commit", "find", "clean"
    status,         \* "idle" between operations; "running", "returned", "raised"
    pc,             \* position inside the running operation
    similarity_cut, \* find_similars argument
    batch_size,     \* find_similars argument
    idx,            \* position of the idautils.Functions() enumeration
    l_func_addr,    \* the batch handed to _batch_similars
    bi,             \* position of the running loop of _batch_similars
    lres,           \* _batch_similars: list of (func_addr, similars)
    opened,         \* sessions opened by the operation
    closed,         \* fdb.close() calls made by the operation
    reqQ,           \* requests on the wire, not yet answered by the remote
    respQ,          \* answers on the wire, not yet read by the client
    sent,           \* every message the operation has sent on its session
    calls,          \* request_similars / response_similars calls of the running batch
    batches,        \* the batches blockify has produced so far
    processed,      \* the (func_addr, similars) pairs find_similars has gone through
    renamed,        \* the idc.MakeName calls of the operation: [addr, new_name]
    name0,          \* name as it was when the operation started
    comment0,       \* comment as it was when the operation started
    px,             \* inputs of the pure-function specifications
    py              \* outputs of the pure-function specifications

hostvars == <<name, comment, attr>>
opvars   == <<op, status, pc, similarity_cut, batch_size, idx, l_func_addr, bi, lres>>
sessvars == <<opened, closed, reqQ, respQ, sent, calls, batches, processed, renamed,
              name0, comment0>>
purevars == <<px, py>>
vars     == <<name, comment, attr, op, status, pc, similarity_cut, batch_size,
              idx, l_func_addr, bi, lres, opened, closed, reqQ, respQ, sent,
              calls, batches, processed, renamed, name0, comment0, px, py>>

\* idautils.Functions(): the functions of the database in address order.
Functions == [i \in 1..MaxFuncs |-> Addr(0, i * 4096)]

FuncAddrs == {Functions[i] : i \in 1..MaxFuncs}

----------------------------------------------------------------------------
(* Results of calls that may raise FCatalogClientError.                     *)

Ret(v) == [raised |-> FALSE, val |-> v]
RaiseB == [raised |-> TRUE, val |-> FALSE]
RaiseI == [raised |-> TRUE, val |-> 0]

----------------------------------------------------------------------------
(* Host queries and the candidate selector.                                 *)

GetFunctionName(func_addr) == name[func_addr]

is_func_chunked(func_addr) == attr[func_addr].num_chunks > 1

\* A mutation of get_func_length: the test of is_func_chunked is lost.
get_func_length_no_chunk_test(func_addr) ==
    IF AddrLess(attr[func_addr].func_end, func_addr) THEN RaiseI
    ELSE Ret(AddrMinus(attr[func_addr].func_end, func_addr))

get_func_length(func_addr) ==
    IF is_func_chunked(func_addr) THEN RaiseI
    ELSE IF AddrLess(attr[func_addr].func_end, func_addr) THEN RaiseI
    ELSE Ret(AddrMinus(attr[func_addr].func_end, func_addr))

\* The bytes idc.GetManyBytes(func_addr, func_length) returns: identified by
\* the range read.
get_func_data(func_addr) ==
    LET func_length == get_func_length(func_addr)
    IN  IF func_length.raised THEN [raised |-> TRUE, val |-> <<>>]
        ELSE IF ~attr[func_addr].readable THEN [raised |-> TRUE, val |-> <<>>]
        ELSE Ret(<<func_addr, func_length.val>>)

\* "Currently not implemented": returns "".
get_func_comment(func_addr) == <<>>

\* "Currently not implemented": the stored comment is left as it is.
set_func_comment(cmt, func_addr, new_comment) == cmt

is_func_fcatalog(func_addr) ==
    StartsWith(GetFunctionName(func_addr), FCATALOG_FUNC_NAME_PREFIX)

\* A mutation of is_func_named: the test of is_func_fcatalog is lost.
is_func_named_no_fcatalog_test(func_addr) ==
    LET func_name == GetFunctionName(func_addr)
    IN  IF StartsWith(func_name, <<"s","u","b","_">>) THEN FALSE
        ELSE IF Contains(Lower(func_name), <<"_","m","a","y","b","e">>)
                \/ Contains(Lower(func_name), <<"m","a","y","b","e","_">>) THEN FALSE
        ELSE IF Contains(Lower(func_name), <<"_","r","e","l","a","t","e","d">>)
                \/ Contains(Lower(func_name), <<"r","e","l","a","t","e","d","_">>) THEN FALSE
        ELSE TRUE

is_func_named(func_addr) ==
    LET func_name == GetFunctionName(func_addr)
    IN  IF StartsWith(func_name, <<"s","u","b","_">>) THEN FALSE
        ELSE IF Contains(Lower(func_name), <<"_","m","a","y","b","e">>)
                \/ Contains(Lower(func_name), <<"m","a","y","b","e","_">>) THEN FALSE
        ELSE IF Contains(Lower(func_name), <<"_","r","e","l","a","t","e","d">>)
                \/ Contains(Lower(func_name), <<"r","e","l","a","t","e","d","_">>) THEN FALSE
        ELSE IF is_func_fcatalog(func_addr) THEN FALSE
        ELSE TRUE

\* A mutation of is_func_long_enough: a length of MIN_FUNC_LENGTH is too short.
is_func_long_enough_exclusive(func_addr) ==
    LET func_length == get_func_length(func_addr)
    IN  IF func_length.raised THEN RaiseB
        ELSE IF func_length.val <= MIN_FUNC_LENGTH THEN Ret(FALSE)
        ELSE Ret(TRUE)

is_func_long_enough(func_addr) ==
    LET func_length == get_func_length(func_addr)
    IN  IF func_length.raised THEN RaiseB
        ELSE IF func_length.val < MIN_FUNC_LENGTH THEN Ret(FALSE)
        ELSE Ret(TRUE)

\* A mutation of is_func_commit_candidate: the test of is_func_named is lost.
is_func_commit_candidate_no_name_test(func_addr) ==
    IF is_func_chunked(func_addr) THEN Ret(FALSE)
    ELSE LET long == is_func_long_enough(func_addr)
         IN  IF long.raised THEN RaiseB
             ELSE IF ~long.val THEN Ret(FALSE)
             ELSE Ret(TRUE)

is_func_commit_candidate(func_addr) ==
    IF is_func_chunked(func_addr) THEN Ret(FALSE)
    ELSE IF ~is_func_named(func_addr) THEN Ret(FALSE)
    ELSE LET long == is_func_long_enough(func_addr)
         IN  IF long.raised THEN RaiseB
             ELSE IF ~long.val THEN Ret(FALSE)
             ELSE Ret(TRUE)

\* A mutation of is_func_find_candidate: the test of is_func_named is lost.
is_func_find_candidate_no_name_test(func_addr) ==
    IF is_func_chunked(func_addr) THEN Ret(FALSE)
    ELSE LET long == is_func_long_enough(func_addr)
         IN  IF long.raised THEN RaiseB
             ELSE IF ~long.val THEN Ret(FALSE)
             ELSE Ret(TRUE)

is_func_find_candidate(func_addr) ==
    IF is_func_chunked(func_addr) THEN Ret(FALSE)
    ELSE IF is_func_named(func_addr) THEN Ret(FALSE)
    ELSE LET long == is_func_long_enough(func_addr)
         IN  IF long.raised THEN RaiseB
             ELSE IF ~long.val THEN Ret(FALSE)
             ELSE Ret(TRUE)

----------------------------------------------------------------------------
(* Initial databases and the inputs of the operations.                      *)

Str_sub1     == <<"s","u","b","_","1">>
Str_h        == <<"h">>
Str_catalogh == FCATALOG_FUNC_NAME_PREFIX \o <<"h">>

\* Function descriptions the databases of the model are made of; func_len is
\* func_end - func_addr.
FuncProfiles ==
    { [name |-> Str_sub1, comment |-> <<"u">>, num_chunks |-> 1,
       func_len |-> MIN_FUNC_LENGTH, readable |-> TRUE],
      [name |-> Str_sub1, comment |-> <<>>, num_chunks |-> 1,
       func_len |-> MIN_FUNC_LENGTH, readable |-> FALSE],
      [name |-> Str_h, comment |-> <<"u">>, num_chunks |-> 1,
       func_len |-> MIN_FUNC_LENGTH + 32, readable |-> TRUE],
      [name |-> Str_h, comment |-> <<>>, num_chunks |-> 1,
       func_len |-> MIN_FUNC_LENGTH, readable |-> FALSE],
      [name |-> Str_catalogh, comment |-> <<"%","%","%"," ","k",LF,"u">>, num_chunks |-> 1,
       func_len |-> MIN_FUNC_LENGTH, readable |-> TRUE],
      [name |-> Str_sub1, comment |-> <<>>, num_chunks |-> 1,
       func_len |-> MIN_FUNC_LENGTH - 1, readable |-> TRUE],
      [name |-> Str_sub1, comment |-> <<>>, num_chunks |-> 1,
       func_len |-> 0 - 1, readable |-> TRUE] }

\* A SimilarityMatch as the remote returns it.
FSim(n, g, c) == [name |-> n, sim_grade |-> g, comment |-> c]

\* The match lists the remote may answer a request with.
SimilarsPool ==
    { <<>>,
      << FSim(<<"h">>, 10, <<"k">>) >>,
      << FSim(<<"h">>, 5, <<"k">>), FSim(<<"z">>, 10, <<"j">>) >> }

\* The cutoffs find_similars is called with.
CutPool == {5, 10}

\* The batch sizes find_similars is called with.
BatchSizes == 1..MaxBatch

\* The pure-function specifications are not running.
NoInput  == [step |-> "none"]
NoOutput == [step |-> "none"]

HostOf(p) ==
    /\ name = [f \in FuncAddrs |-> p[f].name]
    /\ comment = [f \in FuncAddrs |-> p[f].comment]
    /\ attr = [f \in FuncAddrs |->
                 [num_chunks |-> p[f].num_chunks,
                  func_end |-> Addr(f[1], f[2] + p[f].func_len),
                  readable |-> p[f].readable]]

NoOperation ==
    /\ op = "none" /\ status = "idle" /\ pc = "idle"
    /\ similarity_cut = 0 /\ batch_size = 0
    /\ idx = 1 /\ l_func_addr = <<>> /\ bi = 1 /\ lres = <<>>
    /\ opened = 0 /\ closed = 0
    /\ reqQ = <<>> /\ respQ = <<>> /\ sent = <<>> /\ calls = <<>>
    /\ batches = <<>> /\ processed = <<>> /\ renamed = <<>>
    /\ name0 = name /\ comment0 = comment

Init ==
    /\ \E p \in [FuncAddrs -> FuncProfiles] : HostOf(p)
    /\ NoOperation
    /\ px = NoInput /\ py = NoOutput

----------------------------------------------------------------------------
(* Starting and leaving an operation.                                       *)

\* The operation o starts: its locals and its session are fresh.
Start(o, cut, bs, nopen) ==
    /\ status = "idle"
    /\ op' = o
    /\ similarity_cut' = cut /\ batch_size' = bs
    /\ idx' = 1 /\ l_func_addr' = <<>> /\ bi' = 1 /\ lres' = <<>>
    /\ opened' = nopen /\ closed' = 0
    /\ reqQ' = <<>> /\ respQ' = <<>> /\ sent' = <<>> /\ calls' = <<>>
    /\ batches' = <<>> /\ processed' = <<>> /\ renamed' = <<>>
    /\ name0' = name /\ comment0' = comment

\* A mutation of Raised: the exception is swallowed and the operation goes
\* on with the next block.
Raised_resume ==
    /\ status' = status
    /\ pc' = "blockify"

\* An exception leaves the operation: nothing after the raising statement runs.
Raised ==
    /\ status' = "raised"
    /\ pc' = "idle"

----------------------------------------------------------------------------
(* The catalog session (DBEndpoint over TCPFrameClient) and the remote.     *)

\* idc.MakeName(func_addr, new_name)
MakeName(nm, func_addr, new_name) == [nm EXCEPT ![func_addr] = new_name]

AddFunctionMsg(func_name, func_comment, func_data) ==
    [type |-> "add_function", name |-> func_name, comment |-> func_comment,
     data |-> func_data]

RequestSimilarsMsg(func_data, num_similars) ==
    [type |-> "request_similars", data |-> func_data, num |-> num_similars]

\* TCPFrameClient(remote) or DBEndpoint(frame_endpoint, db_name) fails: the
\* operation raises before it has a session.
open_fails ==
    /\ \/ Start("commit", 0, 0, 0)
       \/ \E cut \in CutPool, bs \in BatchSizes : Start("find", cut, bs, 0)
    /\ Raised
    /\ UNCHANGED <<hostvars, purevars>>

\* The remote answers the oldest unanswered request with a match list; the
\* answer remembers the bytes it answers.
remote_reply ==
    /\ status = "running"
    /\ reqQ # <<>>
    /\ \E similars \in SimilarsPool :
          respQ' = Append(respQ, [data |-> Head(reqQ).data, similars |-> similars])
    /\ reqQ' = Tail(reqQ)
    /\ UNCHANGED <<hostvars, opvars, purevars, opened, closed, sent, calls, batches,
                   processed, renamed, name0, comment0>>

----------------------------------------------------------------------------
(* FCatalogClient.commit_funcs                                              *)

commit_funcs_call ==
    /\ Start("commit", 0, 0, 1)
    /\ status' = "running"
    /\ pc' = "commit_loop"
    /\ UNCHANGED <<hostvars, purevars>>

\* One pass of the loop over idautils.Functions().
commit_funcs_loop ==
    /\ status = "running" /\ pc = "commit_loop"
    /\ idx <= MaxFuncs
    /\ LET func_addr == Functions[idx]
           cand      == is_func_commit_candidate(func_addr)
           func_name == GetFunctionName(func_addr)
           func_comment == strip_comment_fcatalog(get_func_comment(func_addr))
           func_data == get_func_data(func_addr)
       IN  \/ /\ cand.raised
              /\ Raised
              /\ UNCHANGED <<idx, sent>>
           \/ /\ ~cand.raised /\ ~cand.val
              /\ idx' = idx + 1
              /\ UNCHANGED <<status, pc, sent>>
           \/ /\ ~cand.raised /\ cand.val
              /\ func_data.raised
              /\ Raised
              /\ UNCHANGED <<idx, sent>>
           \/ /\ ~cand.raised /\ cand.val
              /\ ~func_data.raised
              /\ \/ /\ sent' = Append(sent, AddFunctionMsg(func_name, func_comment,
                                                          func_data.val))
                    /\ idx' = idx + 1
                    /\ UNCHANGED <<status, pc>>
                 \/ \* add_function fails on the transport
                    /\ Raised
                    /\ UNCHANGED <<idx, sent>>
    /\ UNCHANGED <<hostvars, purevars, op, similarity_cut, batch_size, l_func_addr, bi,
                   lres, opened, closed, reqQ, respQ, calls, batches, processed,
                   renamed, name0, comment0>>

\* The loop is over: fdb.close() and return.
commit_funcs_close ==
    /\ status = "running" /\ pc = "commit_loop"
    /\ idx > MaxFuncs
    /\ closed' = closed + 1
    /\ status' = "returned"
    /\ pc' = "idle"
    /\ UNCHANGED <<hostvars, purevars, op, similarity_cut, batch_size, idx, l_func_addr,
                   bi, lres, opened, reqQ, respQ, sent, calls, batches, processed,
                   renamed, name0, comment0>>

----------------------------------------------------------------------------
(* iter_func_find_candidates and blockify                                   *)

\* A mutation of iter_func_find_candidates: the enumeration does not move on
\* after a candidate.
RECURSIVE iter_func_find_candidates_stuck(_)
iter_func_find_candidates_stuck(i) ==
    IF i > MaxFuncs
    THEN [raised |-> FALSE, done |-> TRUE, addr |-> Addr(0, 0), idx |-> i]
    ELSE LET cand == is_func_find_candidate(Functions[i])
         IN  IF cand.raised
             THEN [raised |-> TRUE, done |-> FALSE, addr |-> Addr(0, 0), idx |-> i]
             ELSE IF cand.val
             THEN [raised |-> FALSE, done |-> FALSE, addr |-> Functions[i], idx |-> i]
             ELSE iter_func_find_candidates_stuck(i + 1)

\* A mutation of iter_func_find_candidates: every function is yielded.
iter_func_find_candidates_all(i) ==
    IF i > MaxFuncs
    THEN [raised |-> FALSE, done |-> TRUE, addr |-> Addr(0, 0), idx |-> i]
    ELSE [raised |-> FALSE, done |-> FALSE, addr |-> Functions[i], idx |-> i + 1]

\* The generator resumed at enumeration position i: the next find candidate,
\* the end of the enumeration, or the exception of the candidate test.
RECURSIVE iter_func_find_candidates(_)
iter_func_find_candidates(i) ==
    IF i > MaxFuncs
    THEN [raised |-> FALSE, done |-> TRUE, addr |-> Addr(0, 0), idx |-> i]
    ELSE LET cand == is_func_find_candidate(Functions[i])
         IN  IF cand.raised
             THEN [raised |-> TRUE, done |-> FALSE, addr |-> Addr(0, 0), idx |-> i]
             ELSE IF cand.val
             THEN [raised |-> FALSE, done |-> FALSE, addr |-> Functions[i], idx |-> i + 1]
             ELSE iter_func_find_candidates(i + 1)

\* blockify(iterable, n): the next block of up to n items drawn from the
\* generator standing at position i; an empty block ends the iteration.
RECURSIVE blockify(_, _, _)
blockify(i, block, n) ==
    IF Len(block) = n
    THEN [raised |-> FALSE, block |-> block, idx |-> i]
    ELSE LET x == iter_func_find_candidates(i)
         IN  IF x.raised THEN [raised |-> TRUE, block |-> <<>>, idx |-> x.idx]
             ELSE IF x.done THEN [raised |-> FALSE, block |-> block, idx |-> x.idx]
             ELSE blockify(x.idx, Append(block, x.addr), n)

----------------------------------------------------------------------------
(* FCatalogClient._batch_similars                                           *)

\* A mutation of request_loop_over: the loop stops after its first pass.
request_loop_over_early(l, i) == i > 1

\* "for func_addr in l_func_addr" of the request loop is exhausted at i.
request_loop_over(l, i) == i > Len(l)

\* A mutation of response_loop_over: the loop reads one response less.
response_loop_over_short(l, i) == i > Len(l) - 1

\* "for func_addr in l_func_addr" of the response loop is exhausted at i.
response_loop_over(l, i) == i > Len(l)

\* A mutation of response_func_addr: the responses are paired back to front.
response_func_addr_reversed(l, i) == l[Len(l) + 1 - i]

\* The func_addr of pass i of the response loop.
response_func_addr(l, i) == l[i]

\* One pass of the request loop: get_func_data, then fdb.request_similars.
batch_similars_request ==
    /\ status = "running" /\ pc = "request"
    /\ LET func_addr == l_func_addr[bi]
           func_data == get_func_data(func_addr)
       IN  \/ /\ func_data.raised
              /\ Raised
              /\ UNCHANGED <<bi, reqQ, sent, calls>>
           \/ /\ ~func_data.raised
              /\ calls' = Append(calls, "request_similars")
              /\ \/ /\ reqQ' = Append(reqQ, RequestSimilarsMsg(func_data.val, 1))
                    /\ sent' = Append(sent, RequestSimilarsMsg(func_data.val, 1))
                    /\ IF request_loop_over(l_func_addr, bi + 1)
                       THEN pc' = "response" /\ bi' = 1
                       ELSE pc' = pc /\ bi' = bi + 1
                    /\ UNCHANGED status
                 \/ \* request_similars fails on the transport
                    /\ Raised
                    /\ UNCHANGED <<bi, reqQ, sent>>
    /\ UNCHANGED <<hostvars, purevars, op, similarity_cut, batch_size, idx, l_func_addr,
                   lres, opened, closed, respQ, batches, processed, renamed,
                   name0, comment0>>

\* One pass of the response loop: fdb.response_similars blocks until the next
\* answer is there, then (func_addr, similars) is appended to lres.
batch_similars_response ==
    /\ status = "running" /\ pc = "response"
    /\ \/ /\ respQ # <<>>
          /\ calls' = Append(calls, "response_similars")
          /\ lres' = Append(lres, [func_addr |-> response_func_addr(l_func_addr, bi),
                                   similars |-> Head(respQ).similars,
                                   answers |-> Head(respQ).data])
          /\ respQ' = Tail(respQ)
          /\ IF response_loop_over(l_func_addr, bi + 1)
             THEN pc' = "process" /\ bi' = 1
             ELSE pc' = pc /\ bi' = bi + 1
          /\ UNCHANGED status
       \/ \* response_similars fails on the transport or on a malformed frame
          /\ calls' = Append(calls, "response_similars")
          /\ Raised
          /\ UNCHANGED <<bi, lres, respQ>>
    /\ UNCHANGED <<hostvars, purevars, op, similarity_cut, batch_size, idx, l_func_addr,
                   opened, closed, reqQ, sent, batches, processed, renamed,
                   name0, comment0>>

----------------------------------------------------------------------------
(* FCatalogClient.find_similars                                             *)

find_similars_call ==
    /\ \E cut \in CutPool, bs \in BatchSizes : Start("find", cut, bs, 1)
    /\ status' = "running"
    /\ pc' = "blockify"
    /\ UNCHANGED <<hostvars, purevars>>

\* The head of "for l_func_addr in blockify(...)": the next block goes to
\* _batch_similars; when there is none, fdb.close() and return.
find_similars_next_block ==
    /\ status = "running" /\ pc = "blockify"
    /\ LET b == blockify(idx, <<>>, batch_size)
       IN  \/ /\ b.raised
              /\ Raised
              /\ UNCHANGED <<idx, l_func_addr, bi, lres, closed, calls, batches>>
           \/ /\ ~b.raised /\ b.block # <<>>
              /\ l_func_addr' = b.block
              /\ idx' = b.idx
              /\ batches' = Append(batches, b.block)
              /\ bi' = 1 /\ lres' = <<>> /\ calls' = <<>>
              /\ pc' = "request"
              /\ UNCHANGED <<status, closed>>
           \/ /\ ~b.raised /\ b.block = <<>>
              /\ closed' = closed + 1
              /\ status' = "returned"
              /\ pc' = "idle"
              /\ idx' = b.idx
              /\ UNCHANGED <<l_func_addr, bi, lres, calls, batches>>
    /\ UNCHANGED <<hostvars, purevars, op, similarity_cut, batch_size, opened, reqQ,
                   respQ, sent, processed, renamed, name0, comment0>>

\* A mutation of passes_cut: a grade equal to the cut is discarded.
passes_cut_strict(fsim, cut) == fsim.sim_grade > cut

\* "if fsim.sim_grade < similarity_cut: continue" does not discard fsim.
passes_cut(fsim, cut) == ~(fsim.sim_grade < cut)

\* "fsim = similars[0]"
first_entry(similars) == similars[1]

\* The loop "for func_addr,similars in bsimilars" from pass i on: the names,
\* the comments and the MakeName calls it leaves.
RECURSIVE process_loop(_, _, _, _, _, _)
process_loop(i, bsimilars, cut, nm, cm, rn) ==
    IF i > Len(bsimilars) THEN [name |-> nm, comment |-> cm, renamed |-> rn]
    ELSE LET func_addr == bsimilars[i].func_addr
             similars  == bsimilars[i].similars
         IN  IF Len(similars) = 0
             THEN process_loop(i + 1, bsimilars, cut, nm, cm, rn)
             ELSE LET fsim == first_entry(similars)
                  IN  IF ~passes_cut(fsim, cut)
                      THEN process_loop(i + 1, bsimilars, cut, nm, cm, rn)
                      ELSE LET new_name ==
                                   make_fcatalog_name(fsim.name, fsim.sim_grade, func_addr)
                               func_comment == get_func_comment(func_addr)
                               func_comment_new ==
                                   add_comment_fcatalog(func_comment, fsim.comment)
                           IN  process_loop(i + 1, bsimilars, cut,
                                            MakeName(nm, func_addr, new_name),
                                            set_func_comment(cm, func_addr, func_comment_new),
                                            Append(rn, [addr |-> func_addr,
                                                        new_name |-> new_name]))

\* The body of the batch loop after _batch_similars has returned.
find_similars_process ==
    /\ status = "running" /\ pc = "process"
    /\ LET r == process_loop(1, lres, similarity_cut, name, comment, renamed)
       IN  /\ name' = r.name
           /\ comment' = r.comment
           /\ renamed' = r.renamed
    /\ processed' = processed \o lres
    /\ pc' = "blockify"
    /\ UNCHANGED <<attr, purevars, op, status, similarity_cut, batch_size, idx,
                   l_func_addr, bi, lres, opened, closed, reqQ, respQ, sent, calls,
                   batches, name0, comment0>>

----------------------------------------------------------------------------
(* clean_idb                                                                *)

\* A mutation of clean_loop: the test of is_func_fcatalog is lost.
RECURSIVE clean_loop_all(_, _, _, _)
clean_loop_all(i, nm, cm, rn) ==
    IF i > MaxFuncs THEN [name |-> nm, comment |-> cm, renamed |-> rn]
    ELSE LET func_addr == Functions[i]
             func_comment == get_func_comment(func_addr)
         IN  clean_loop_all(i + 1,
                            MakeName(nm, func_addr, <<>>),
                            set_func_comment(cm, func_addr,
                                             strip_comment_fcatalog(func_comment)),
                            Append(rn, [addr |-> func_addr, new_name |-> <<>>]))

\* The loop of clean_idb from enumeration position i on.
RECURSIVE clean_loop(_, _, _, _)
clean_loop(i, nm, cm, rn) ==
    IF i > MaxFuncs THEN [name |-> nm, comment |-> cm, renamed |-> rn]
    ELSE LET func_addr == Functions[i]
         IN  IF ~is_func_fcatalog(func_addr)
             THEN clean_loop(i + 1, nm, cm, rn)
             ELSE LET func_comment == get_func_comment(func_addr)
                  IN  clean_loop(i + 1,
                                 MakeName(nm, func_addr, <<>>),
                                 set_func_comment(cm, func_addr,
                                                  strip_comment_fcatalog(func_comment)),
                                 Append(rn, [addr |-> func_addr, new_name |-> <<>>]))

clean_idb ==
    /\ Start("clean", 0, 0, 0)
    /\ LET r == clean_loop(1, name, comment, <<>>)
       IN  /\ name' = r.name
           /\ comment' = r.comment
    /\ status' = "returned"
    /\ pc' = "idle"
    /\ UNCHANGED <<attr, purevars>>

----------------------------------------------------------------------------
(* The operations on a database.                                            *)

\* The operation has returned or raised and its caller goes on: the locals
\* of the operation and its session object are gone, the database stays.
back_to_caller ==
    /\ status \in {"returned", "raised"}
    /\ op' = "none" /\ status' = "idle" /\ pc' = "idle"
    /\ similarity_cut' = 0 /\ batch_size' = 0
    /\ idx' = 1 /\ l_func_addr' = <<>> /\ bi' = 1 /\ lres' = <<>>
    /\ opened' = 0 /\ closed' = 0
    /\ reqQ' = <<>> /\ respQ' = <<>> /\ sent' = <<>> /\ calls' = <<>>
    /\ batches' = <<>> /\ processed' = <<>> /\ renamed' = <<>>
    /\ name0' = name /\ comment0' = comment
    /\ UNCHANGED <<hostvars, purevars>>

Next ==
    \/ commit_funcs_call
    \/ commit_funcs_loop
    \/ commit_funcs_close
    \/ find_similars_call
    \/ find_similars_next_block
    \/ batch_similars_request
    \/ batch_similars_response
    \/ find_similars_process
    \/ clean_idb
    \/ open_fails
    \/ remote_reply
    \/ back_to_caller

Spec == Init /\ [][Next]_vars

----------------------------------------------------------------------------
(* The comment codec on its own: strip_comment_fcatalog after               *)
(* add_comment_fcatalog, on every comment and catalog comment of bounded    *)
(* length over CommentChars.                                                *)

CommentChars == {"%", "a", LF, CR}

SeqsUpTo(S, n) == UNION {[1..k -> S] : k \in 0..n}

InitCodec ==
    /\ \E p \in [FuncAddrs -> {CHOOSE q \in FuncProfiles : q.name = Str_h /\ q.readable}] :
          HostOf(p)
    /\ NoOperation
    /\ \E c \in SeqsUpTo(CommentChars, MaxCommentLen),
          k \in SeqsUpTo(CommentChars, MaxFCommentLen) :
          px = [step |-> "codec", comment |-> c, fcatalog_comment |-> k]
    /\ py = NoOutput

codec_add ==
    /\ px.step = "codec" /\ py.step = "none"
    /\ py' = [step |-> "added",
              added |-> add_comment_fcatalog(px.comment, px.fcatalog_comment)]
    /\ UNCHANGED <<hostvars, opvars, sessvars, px>>

codec_strip ==
    /\ px.step = "codec" /\ py.step = "added"
    /\ py' = [step |-> "stripped", added |-> py.added,
              stripped |-> strip_comment_fcatalog(py.added)]
    /\ UNCHANGED <<hostvars, opvars, sessvars, px>>

NextCodec == codec_add \/ codec_strip

SpecCodec == InitCodec /\ [][NextCodec]_vars

----------------------------------------------------------------------------
(* The candidate selector on its own: the predicates on every function of   *)
(* every database made of SelectorNames, chunking and length.               *)

SelectorNames ==
    { Str_sub1, Str_h, Str_catalogh, <<>>,
      <<"a","_","M","a","y","b","e">>, <<"m","a","y","b","e","_","a">>,
      <<"x","_","r","e","l","a","t","e","d">>, <<"R","E","L","A","T","E","D","_","x">>,
      <<"m","a","y","b","e">> }

SelectorChunks == {1, 2}

SelectorLengths == {0 - 1, MIN_FUNC_LENGTH - 1, MIN_FUNC_LENGTH}

\* The predicates read one function only: the database holds one function
\* of every description, at any address, among functions named 'h'.
InitSelector ==
    /\ \E g \in FuncAddrs, n \in SelectorNames, ch \in SelectorChunks,
          ln \in SelectorLengths :
          /\ name = [f \in FuncAddrs |-> IF f = g THEN n ELSE Str_h]
          /\ attr = [f \in FuncAddrs |->
                       [num_chunks |-> IF f = g THEN ch ELSE 1,
                        func_end |-> Addr(f[1], f[2] + (IF f = g THEN ln
                                                         ELSE MIN_FUNC_LENGTH)),
                        readable |-> TRUE]]
    /\ comment = [f \in FuncAddrs |-> <<>>]
    /\ NoOperation
    /\ px = [step |-> "selector"]
    /\ py = NoOutput

select_candidate ==
    /\ px.step = "selector"
    /\ \E f \in FuncAddrs :
          py' = [step |-> "selected", func_addr |-> f,
                 chunked |-> is_func_chunked(f),
                 fcatalog |-> is_func_fcatalog(f),
                 named |-> is_func_named(f),
                 length |-> get_func_length(f),
                 data |-> get_func_data(f),
                 long_enough |-> is_func_long_enough(f),
                 commit |-> is_func_commit_candidate(f),
                 find |-> is_func_find_candidate(f)]
    /\ UNCHANGED <<hostvars, opvars, sessvars, px>>

NextSelector == select_candidate

SpecSelector == InitSelector /\ [][NextSelector]_vars

----------------------------------------------------------------------------
(* Properties.                                                              *)

IsTrue(r) == ~r.raised /\ r.val

Count(seq, x) == Cardinality({i \in DOMAIN seq : seq[i] = x})

\* Requests sent whose response has not been read yet.
InFlight == Len(reqQ) + Len(respQ)

HasMarkerLine(cmt) ==
    \E i \in DOMAIN SplitLines(cmt) :
        StartsWith(SplitLines(cmt)[i], FCATALOG_COMMENT_PREFIX)

\* The top match of a processed pair passes the cut.
TopPasses(e) ==
    /\ Len(e.similars) > 0
    /\ e.similars[1].sim_grade >= similarity_cut

\* C1: in commit_funcs and find_similars, every session that was opened is
\* closed exactly once by the time the operation returns or raises.
C1_SessionClosedOnce ==
    (op \in {"commit", "find"} /\ status \in {"returned", "raised"})
        => closed = opened

\* C2: a function whose name starts with 'FCATALOG__' is neither a commit
\* candidate nor a find candidate, whatever its length and chunking.
C2_CatalogNeverCandidate ==
    (py.step = "selected" /\ py.fcatalog)
        => (~IsTrue(py.commit) /\ ~IsTrue(py.find))

\* C3: strip_comment_fcatalog(add_comment_fcatalog(C, K)) = C for every
\* comment C and catalog comment K.
C3_RoundTrip ==
    py.step = "stripped" => py.stripped = px.comment

\* C4: within one batch of _batch_similars, every response_similars call
\* comes after a request_similars call for every function of the batch, and
\* when the batch is done there are as many response calls as request calls.
C4_RequestsBeforeResponses ==
    /\ \A i \in DOMAIN calls :
          calls[i] = "response_similars"
              => Count(SubSeq(calls, 1, i - 1), "request_similars") = Len(l_func_addr)
    /\ pc = "process"
          => /\ Count(calls, "response_similars") = Count(calls, "request_similars")
             /\ Count(calls, "request_similars") = Len(l_func_addr)

\* C4 witness: a batch of two functions has been requested and answered.
C4_Witness ==
    /\ pc = "process"
    /\ Len(l_func_addr) = 2
    /\ calls = <<"request_similars", "request_similars",
                 "response_similars", "response_similars">>

\* C5: with an in-order channel and a remote answering in order, the match
\* list paired with address f answers the request that carried f's bytes,
\* and the pair list of a batch has the length and the order of the batch.
C5_PositionalPairing ==
    /\ \A i \in DOMAIN lres :
          /\ lres[i].func_addr = l_func_addr[i]
          /\ lres[i].answers = get_func_data(lres[i].func_addr).val
    /\ pc = "process" => Len(lres) = Len(l_func_addr)

\* C5 witness: the pair list of a batch of two different functions is complete.
C5_Witness ==
    /\ pc = "process"
    /\ Len(lres) = 2
    /\ lres[1].func_addr # lres[2].func_addr
    /\ lres[1].similars # lres[2].similars

\* C6: during find_similars at most batch_size requests are unanswered to
\* the client; none is when the first request of a batch is sent, and none
\* is when the operation returns.
C6_InFlightBounded ==
    op = "find"
        => /\ InFlight <= batch_size
           /\ (status = "running" /\ pc = "request" /\ bi = 1) => InFlight = 0
           /\ status = "returned" => InFlight = 0

\* C6 witness: find_similars has returned after two batches, the first of
\* which was full.
C6_Witness ==
    /\ op = "find" /\ status = "returned"
    /\ Len(batches) = 2
    /\ Len(batches[1]) = batch_size
    /\ Len(sent) = Len(batches[1]) + Len(batches[2])

\* C7: is_func_commit_candidate and is_func_find_candidate are never both
\* true of a function.
C7_CandidatesExclusive ==
    py.step = "selected" => ~(IsTrue(py.commit) /\ IsTrue(py.find))

\* C7 witness: the selector has evaluated both predicates on a function that
\* is a commit candidate.
C7_Witness ==
    /\ py.step = "selected"
    /\ IsTrue(py.commit)
    /\ ~py.chunked /\ IsTrue(py.long_enough)

\* C8: a queried function whose (func_addr, similars) pair the result loop of
\* find_similars has gone through is renamed iff its match list is not empty
\* and the grade of its first entry is >= similarity_cut; its name is then
\* 'FCATALOG__' + two-digit grade + '__' + the first entry's name + '__' +
\* eight hexadecimal digits of its address, and otherwise the name it had.
C8_RenameOnTopMatch ==
    op = "find"
        => \A i \in DOMAIN processed :
              LET e == processed[i]
                  top == e.similars[1]
              IN  /\ TopPasses(e) <=> (\E j \in DOMAIN renamed : renamed[j].addr = e.func_addr)
                  /\ name[e.func_addr] =
                        IF TopPasses(e)
                        THEN FCATALOG_FUNC_NAME_PREFIX
                                \o PadLeft0(DecStr(top.sim_grade), 2) \o <<"_","_">>
                                \o top.name
                                \o <<"_","_">> \o Hex8(Mask32(e.func_addr))
                        ELSE name0[e.func_addr]

\* C8 witness: with cut 10 the function at 0x1000 got a first entry of grade
\* 10 and is named FCATALOG__10__h__00001000, while another queried function
\* kept its name.
C8_Witness ==
    /\ op = "find" /\ similarity_cut = 10
    /\ \E i \in DOMAIN processed :
          /\ processed[i].func_addr = Addr(0, 4096)
          /\ processed[i].similars = << FSim(<<"h">>, 10, <<"k">>) >>
    /\ name[Addr(0, 4096)] =
          <<"F","C","A","T","A","L","O","G","_","_","1","0","_","_","h","_","_",
            "0","0","0","0","1","0","0","0">>
    /\ \E i \in DOMAIN processed :
          /\ Len(processed[i].similars) = 2
          /\ name[processed[i].func_addr] = name0[processed[i].func_addr]

\* C9: after find_similars renames a function on a top match with comment K,
\* the stored comment of the function is the lines of K, each prefixed with
\* '%%% ', followed by the lines of the comment it had.
C9_CommentSpliced ==
    op = "find"
        => \A i \in DOMAIN processed :
              LET e == processed[i]
              IN  TopPasses(e)
                    => comment[e.func_addr] =
                          JoinLF(PrefixLines(SplitLines(e.similars[1].comment))
                                 \o SplitLines(comment0[e.func_addr]))

\* C10: after clean_idb every function that had a catalog-prefixed name has
\* the empty name and a comment without a line starting with '%%%'.
C10_CleanRemovesMarks ==
    (op = "clean" /\ status = "returned")
        => \A f \in FuncAddrs :
              StartsWith(name0[f], FCATALOG_FUNC_NAME_PREFIX)
                  => /\ name[f] = <<>>
                     /\ ~HasMarkerLine(comment[f])

\* The addresses of the first n functions of the enumeration that are not
\* chunked, are named by the user and are long enough.
RECURSIVE CommitCandidatesUpTo(_)
CommitCandidatesUpTo(n) ==
    IF n = 0 THEN <<>>
    ELSE LET f == Functions[n]
         IN  IF /\ attr[f].num_chunks <= 1
                /\ is_func_named(f)
                /\ IsTrue(is_func_long_enough(f))
             THEN Append(CommitCandidatesUpTo(n - 1), f)
             ELSE CommitCandidatesUpTo(n - 1)

\* C11: the messages commit_funcs has sent are one add-function message for
\* each commit candidate it has enumerated, in enumeration order, each with
\* the name and the bytes of its function; it makes no request_similars or
\* response_similars call and puts no request on its session.
C11_CommitSendsOnePerCandidate ==
    op = "commit"
        => /\ Len(sent) = Len(CommitCandidatesUpTo(idx - 1))
           /\ \A i \in DOMAIN sent :
                 /\ sent[i].type = "add_function"
                 /\ sent[i].data[1] = CommitCandidatesUpTo(idx - 1)[i]
                 /\ sent[i].name = name[sent[i].data[1]]
           /\ calls = <<>> /\ reqQ = <<>> /\ respQ = <<>>

\* C11 witness: commit_funcs has returned from a database with a commit
\* candidate and a function that is none, having sent for the candidate.
C11_Witness ==
    /\ op = "commit" /\ status = "returned"
    /\ Len(sent) >= 1
    /\ Len(sent) < MaxFuncs
    /\ idx = MaxFuncs + 1

\* The concatenation of a sequence of sequences.
RECURSIVE Flatten(_)
Flatten(ss) == IF Len(ss) = 0 THEN <<>> ELSE Head(ss) \o Flatten(Tail(ss))

\* The find candidates of the database in enumeration order.
FindCandidates ==
    SelectSeq(Functions, LAMBDA f : IsTrue(is_func_find_candidate(f)))

----------------------------------------------------------------------------
(* make_fcatalog_name on its own: on names, grades 0..MAX_SIM_GRADE and     *)
(* pairs of addresses, some of them of more than 32 bits.                   *)

NameInputs == { Str_h, Str_sub1, <<>>, <<"a","_","b">> }

AddrInputs ==
    { Addr(0, 0), Addr(0, 8192), Addr(16, 4096), Addr(65535, 65535),
      Addr(65536, 8192), Addr(65536 + 16, 4096), Addr(3 * 65536 + 65535, 65535) }

InitName ==
    /\ \E p \in [FuncAddrs -> {CHOOSE q \in FuncProfiles : q.name = Str_h /\ q.readable}] :
          HostOf(p)
    /\ NoOperation
    /\ \E n \in NameInputs, g \in 0..MAX_SIM_GRADE, a \in AddrInputs, b \in AddrInputs :
          px = [step |-> "name", func_name |-> n, sim_grade |-> g,
                func_addr |-> a, other_addr |-> b]
    /\ py = NoOutput

\* make_fcatalog_name on the name and the grade with each of the two addresses.
name_make ==
    /\ px.step = "name" /\ py.step = "none"
    /\ py' = [step |-> "named",
              new_name |-> make_fcatalog_name(px.func_name, px.sim_grade, px.func_addr),
              other_name |-> make_fcatalog_name(px.func_name, px.sim_grade, px.other_addr)]
    /\ UNCHANGED <<hostvars, opvars, sessvars, px>>

NextName == name_make

SpecName == InitName /\ [][NextName]_vars

\* Hexadecimal digit k (0 the least significant) of a 16-bit number.
Nibble(w, k) ==
    DigitChars[((w \div (IF k = 0 THEN 1 ELSE IF k = 1 THEN 16
                          ELSE IF k = 2 THEN 256 ELSE 4096)) % 16) + 1]

\* The eight hexadecimal digits of the address a modulo 2^32.
Low32Hex(a) ==
    << Nibble(a[1] % 65536, 3), Nibble(a[1] % 65536, 2), Nibble(a[1] % 65536, 1),
       Nibble(a[1] % 65536, 0), Nibble(a[2], 3), Nibble(a[2], 2), Nibble(a[2], 1),
       Nibble(a[2], 0) >>

\* C13: for a name N without the catalog prefix, a grade G in 0..16 and an
\* address A, make_fcatalog_name(N, G, A) is 'FCATALOG__', the two decimal
\* digits of G, '__', N, '__' and the eight hexadecimal digits of A mod 2^32;
\* it starts with the catalog prefix, and addresses equal modulo 2^32 give
\* the same name.
C13_NameFormat ==
    (py.step = "named" /\ ~StartsWith(px.func_name, FCATALOG_FUNC_NAME_PREFIX))
        => /\ py.new_name =
                 <<"F","C","A","T","A","L","O","G","_","_">>
                    \o <<DigitChars[(px.sim_grade \div 10) + 1],
                         DigitChars[(px.sim_grade % 10) + 1]>>
                    \o <<"_","_">> \o px.func_name \o <<"_","_">>
                    \o Low32Hex(px.func_addr)
           /\ StartsWith(py.new_name, FCATALOG_FUNC_NAME_PREFIX)
           /\ (/\ px.func_addr[1] % 65536 = px.other_addr[1] % 65536
               /\ px.func_addr[2] = px.other_addr[2])
                  => py.new_name = py.other_name

\* C13 witness: 'h' with grade 5 at the addresses 0x100002000 and 0x2000,
\* which are equal modulo 2^32, is named FCATALOG__05__h__00002000 at both.
C13_Witness ==
    /\ py.step = "named"
    /\ px.func_name = Str_h /\ px.sim_grade = 5
    /\ px.func_addr = Addr(65536, 8192) /\ px.other_addr = Addr(0, 8192)
    /\ py.new_name = <<"F","C","A","T","A","L","O","G","_","_","0","5","_","_","h",
                       "_","_","0","0","0","0","2","0","0","0">>
    /\ py.other_name = py.new_name

\* The function the selector was applied to has more than one chunk, or ends
\* below its start.
Unmeasurable(f) ==
    \/ attr[f].num_chunks > 1
    \/ attr[f].func_end[1] < f[1]
    \/ (attr[f].func_end[1] = f[1] /\ attr[f].func_end[2] < f[2])

\* C14: get_func_length, and with it is_func_long_enough and get_func_data,
\* raises for a function that is chunked or ends below its start, and
\* returns end minus start for every other function.
C14_LengthOrError ==
    py.step = "selected"
        => LET f == py.func_addr
           IN  IF Unmeasurable(f)
               THEN py.length.raised /\ py.long_enough.raised /\ py.data.raised
               ELSE /\ ~py.length.raised
                    /\ py.length.val = (attr[f].func_end[1] - f[1]) * 65536
                                          + (attr[f].func_end[2] - f[2])
                    /\ ~py.long_enough.raised

\* C14 witness: the length of a chunked function whose end is above its
\* start was asked for, and the call raised.
C14_Witness ==
    /\ py.step = "selected"
    /\ attr[py.func_addr].num_chunks > 1
    /\ attr[py.func_addr].func_end[2] > py.func_addr[2]
    /\ py.length.raised

\* C15: for a measurable function is_func_long_enough is true iff the length
\* is >= 0x60; a function of length 0x5F is neither a commit nor a find
\* candidate, a function of length 0x60 passes the length test.
C15_LengthGate ==
    (py.step = "selected" /\ ~py.length.raised)
        => /\ ~py.long_enough.raised
           /\ py.long_enough.val <=> (py.length.val >= 96)
           /\ py.length.val = 95 => (~IsTrue(py.commit) /\ ~IsTrue(py.find))
           /\ py.length.val = 96 => IsTrue(py.long_enough)

\* C15 witness: a function of length 0x60 passed the length test and is a
\* commit candidate.
C15_Witness ==
    /\ py.step = "selected"
    /\ ~py.length.raised /\ py.length.val = 96
    /\ IsTrue(py.long_enough)
    /\ IsTrue(py.commit)

\* The addresses of the pairs the result loop has gone through.
ProcessedAddrs == {processed[i].func_addr : i \in DOMAIN processed}

\* find_similars has raised.
FindRaised == op = "find" /\ status = "raised"

\* C16: an error while find_similars is at a batch aborts the operation.
\* Once it has raised: no request was sent twice, every renamed function is
\* of a batch that was completed before, and the functions of the failing
\* batch and of the batches never reached have the names they had.  The step
\* after the raise gives control back and leaves the database alone.  A
\* failing get_func_data, candidate test, request_similars call or
\* response_similars call is followed by the raise, with nothing sent and
\* nothing renamed in that step.
C16_ErrorAborts ==
    /\ [](FindRaised
            => /\ \A i, j \in DOMAIN sent : i # j => sent[i] # sent[j]
               /\ \A j \in DOMAIN renamed : renamed[j].addr \in ProcessedAddrs
               /\ \A f \in FuncAddrs : f \notin ProcessedAddrs => name[f] = name0[f])
    /\ [][/\ FindRaised
             => (status' = "idle" /\ op' = "none" /\ UNCHANGED hostvars)
          /\ (/\ op = "find" /\ status = "running"
              /\ \/ /\ pc = "request" /\ respQ' = respQ
                    /\ get_func_data(l_func_addr[bi]).raised
                 \/ /\ pc = "blockify"
                    /\ blockify(idx, <<>>, batch_size).raised
                 \/ /\ calls' = Append(calls, "request_similars")
                    /\ sent' = sent
                 \/ /\ calls' = Append(calls, "response_similars")
                    /\ lres' = lres)
             => (status' = "raised" /\ sent' = sent /\ lres' = lres
                 /\ UNCHANGED hostvars)]_vars

\* C16 witness: find_similars has raised at its second batch, after the
\* request of that batch was sent; the function of the first batch is
\* renamed, the function of the second is not.
C16_Witness ==
    /\ FindRaised
    /\ Len(batches) = 2 /\ Len(processed) = 1 /\ Len(sent) = 2
    /\ Len(renamed) = 1
    /\ name[batches[2][1]] = name0[batches[2][1]]

\* C17: whatever find_similars, commit_funcs and clean_idb runs came before,
\* no add-function message of commit_funcs carries a name that starts with
\* 'FCATALOG__'.
C17_NoCatalogNameCommitted ==
    \A i \in DOMAIN sent :
        sent[i].type = "add_function"
            => ~StartsWith(sent[i].name, FCATALOG_FUNC_NAME_PREFIX)

\* C17 witness: commit_funcs has gone through a database in which an earlier
\* find_similars run gave a function its catalog name, and has sent a
\* message for another function.
C17_Witness ==
    /\ op = "commit" /\ status = "returned"
    /\ sent # <<>>
    /\ \E f \in FuncAddrs :
          /\ StartsWith(name[f], FCATALOG_FUNC_NAME_PREFIX)
          /\ Len(name[f]) > Len(Str_catalogh)
          /\ attr[f].readable

\* C18: clean_idb leaves the name and the comment of every function whose
\* name does not start with 'FCATALOG__' as they were, opens no session and
\* sends nothing.
C18_CleanFrame ==
    (op = "clean" /\ status = "returned")
        => /\ \A f \in FuncAddrs :
                 ~StartsWith(name0[f], FCATALOG_FUNC_NAME_PREFIX)
                     => (name[f] = name0[f] /\ comment[f] = comment0[f])
           /\ opened = 0 /\ sent = <<>> /\ reqQ = <<>> /\ calls = <<>>

\* C18 witness: clean_idb has cleared a catalog name and kept the name and
\* the comment of a function named otherwise.
C18_Witness ==
    /\ op = "clean" /\ status = "returned"
    /\ \E f \in FuncAddrs :
          StartsWith(name0[f], FCATALOG_FUNC_NAME_PREFIX) /\ name[f] = <<>>
    /\ \E g \in FuncAddrs :
          /\ ~StartsWith(name0[g], FCATALOG_FUNC_NAME_PREFIX)
          /\ name[g] = name0[g] /\ name[g] # <<>> /\ comment[g] # <<>>

\* The addresses whose bytes the requests sent so far carry.
RequestedAddrs == {sent[i].data[1] : i \in DOMAIN sent}

\* A request has just been sent: the request loop is under way, or it has
\* ended and no response of the batch has been read yet.
RequestJustSent ==
    /\ status = "running" /\ sent # <<>>
    /\ pc = "request" \/ (pc = "response" /\ bi = 1)

\* C19: find_similars sends only request_similars messages, at most one for
\* a function, and every request is, when it is sent, for a function that is
\* a find candidate; it renames only functions it has sent a request for, and
\* a function it has sent no request for (so every function that was no find
\* candidate) keeps its name and its comment.
C19_FindFrame ==
    op = "find"
        => /\ \A i \in DOMAIN sent : sent[i].type = "request_similars"
           /\ \A i, j \in DOMAIN sent : i # j => sent[i].data[1] # sent[j].data[1]
           /\ RequestJustSent
                 => IsTrue(is_func_find_candidate(sent[Len(sent)].data[1]))
           /\ \A j \in DOMAIN renamed : renamed[j].addr \in RequestedAddrs
           /\ \A f \in FuncAddrs \ RequestedAddrs :
                 name[f] = name0[f] /\ comment[f] = comment0[f]

\* C19 witness: find_similars has returned having queried and renamed one
\* function and not touched a function named by the user.
C19_Witness ==
    /\ op = "find" /\ status = "returned"
    /\ Len(sent) = 1 /\ Len(renamed) = 1
    /\ \E f \in FuncAddrs :
          /\ name0[f] = Str_h /\ name[f] = Str_h
          /\ f \notin RequestedAddrs

====
